---- MODULE Spec2Model ----
(***************************************************************************)
(* Threshold secret sharing: ShamirSecretSharing (shamir.py), HashFunction *)
(* (hash.py) and LinearSecretSharingWithHashing (shamir_with_hash.py).     *)
(*                                                                         *)
(* One call is in progress at a time (the code is synchronous).  A split   *)
(* call is modelled by its entry (the parameter check), one step per       *)
(* iteration of its `for byte_value in secret` loop (range check, random   *)
(* draws, evaluation) and its return (the reorganisation of the points     *)
(* into shares).  A reconstruct call is one step; its caller then drops    *)
(* the result before the next call.                                        *)
(*                                                                         *)
(* Python integers are unbounded and the two moduli of the code do not fit *)
(* the integers of the model checker, so each modulus keeps its small      *)
(* prime factor and replaces its cofactor by a small prime that is larger  *)
(* than every byte and every difference of two x-coordinates in 1..255:    *)
(* an element d with 0 < |d| <= 255 is then invertible in the model        *)
(* exactly when it is invertible in the code (when the small factor does   *)
(* not divide it).                                                         *)
(***************************************************************************)
EXTENDS Integers, Sequences, FiniteSets, TLC

VARIABLES
    scheme,       \* the engine constructed: "simple" (ShamirSecretSharing) or
                  \* "hashed" (LinearSecretSharingWithHashing)
    prime,        \* self.prime of the engine
    pc,           \* "idle" | "split_loop" | "reconstructed"
    secret,       \* the secret argument of the last split call
    n,            \* the n argument of the last split call
    k,            \* the k (threshold) argument of the last split call
    random_x,     \* the random_x argument of the last split_secret_with_hashing call
    byte_shares,  \* split: one list of n points per byte processed so far
    polys,        \* split: the coefficient list drawn for each byte processed so far
    draws,        \* number of random.randint calls made by the last split call
    hash_func,    \* the HashFunction built by the last split_secret_with_hashing call
    split_out,    \* outcome of the last split call
    shares,       \* the ShareSet returned by the last split call
    rec_idx,      \* reconstruct: 1-based indices into `shares` of the shares passed
    rec_shares,   \* reconstruct: the list of shares passed
    rec_out,      \* outcome of the last reconstruct call
    pre,          \* the last _sample_preimage call: its target and its outcome
    inv_call      \* the last _mod_inverse call: its arguments and its outcome

vars == <<scheme, prime, pc, secret, n, k, random_x, byte_shares, polys, draws,
          hash_func, split_out, shares, rec_idx, rec_shares, rec_out, pre, inv_call>>

-----------------------------------------------------------------------------
(* Bounds of the model *)

MaxN == 3          \* split_secret: n ranges over 1..MaxN, k over 1..MaxN+1
MaxHashN == 2      \* split_secret_with_hashing: n over 1..MaxHashN, k over 1..MaxHashN+1
MaxPick == 3       \* a reconstruct call is passed at most MaxPick shares
MaxDim == 2        \* HashFunction(k, l): k and l range over 1..MaxDim
MaxMod == 12       \* _mod_inverse(a, m): m ranges over 2..MaxMod
MaxAbs == 25       \* _mod_inverse(a, m): a ranges over -MaxAbs..MaxAbs

(* The moduli *)

SmallFactor == 61      \* shamir.py:15, the factor 61 of the default modulus
LargeFactor == 257     \* shamir.py:15, stands for the factor 1000000007
DefaultPrime == SmallFactor * LargeFactor

HashSmallFactor == 197 \* shamir_with_hash.py:11, least prime factor of 2**256 - 2**224 + 2**192 + 2**128 - 1
HashCofactor == 211    \* shamir_with_hash.py:11, stands for the 249-bit cofactor
HashPrime == HashSmallFactor * HashCofactor

\* a modulus passed to ShamirSecretSharing(prime): a prime number below 255
CustomPrimes == {251}

(* Inputs *)

Secrets == {<<>>, <<0>>, <<255>>, <<65, 0>>, <<1, 255>>}
HashSecrets == {<<>>, <<65>>, <<0, 255>>}
WideSecrets == {<<65>>, <<0, 255>>}
WideN == {SmallFactor, SmallFactor + 1}
\* the shares of a wide ShareSet that reconstruct calls are passed
WideIdx == {1, 2, SmallFactor, SmallFactor + 1}

\* outcomes of random.randint(0, p - 1)
RandomField(p) == {1, p - 1}
\* outcomes of random.randint(1, p - 1)
RandomX(p) == {1, 2}

\* entries of the target vectors passed to _sample_preimage
TargetValues == {0, 2, 65}

-----------------------------------------------------------------------------
(* Outcomes of a call *)

Returned == [status |-> "returned", error |-> ""]
Raised(msg) == [status |-> "raised", error |-> msg]
NoCall == [status |-> "none", error |-> ""]

Bytes(bs) == [status |-> "returned", error |-> "", bytes |-> bs]
RaisedNoBytes(msg) == [status |-> "raised", error |-> msg, bytes |-> <<>>]
NoRec == [status |-> "none", error |-> "", bytes |-> <<>>]

NoPre == [status |-> "none", target |-> <<>>, x |-> <<>>]
NoInv == [status |-> "none", a |-> 0, m |-> 0, x |-> 0]

-----------------------------------------------------------------------------
(* Field arithmetic: shamir.py:19-41, shamir_with_hash.py:13-33 *)

RECURSIVE extended_gcd(_, _)
extended_gcd(a, b) ==
    IF a = 0 THEN <<b, 0, 1>>
    ELSE LET r == extended_gcd(b % a, a)
         IN  <<r[1], r[3] - (b \div a) * r[2], r[2]>>

\* a slip: `return x` in place of `return x % m`
mod_inverse_unreduced(a, m) ==
    LET a1 == IF a < 0 THEN ((a % m) + m) % m ELSE a
        r  == extended_gcd(a1, m)
    IN  IF r[1] # 1 THEN [ok |-> FALSE, val |-> 0]
        ELSE [ok |-> TRUE, val |-> r[2]]

\* [ok |-> FALSE] is `raise ValueError("Modular inverse does not exist")`
mod_inverse(a, m) ==
    LET a1 == IF a < 0 THEN ((a % m) + m) % m ELSE a
        r  == extended_gcd(a1, m)
    IN  IF r[1] # 1 THEN [ok |-> FALSE, val |-> 0]
        ELSE [ok |-> TRUE, val |-> r[2] % m]

\* the loop `for coeff in reversed(coeffs)`, i the index of the next coefficient
RECURSIVE horner(_, _, _, _, _)
horner(p, coeffs, x, i, result) ==
    IF i = 0 THEN result
    ELSE horner(p, coeffs, x, i - 1, ((result * x) + coeffs[i]) % p)

\* a slip: the coefficients taken in list order, without `reversed`
RECURSIVE horner_forward(_, _, _, _, _)
horner_forward(p, coeffs, x, i, result) ==
    IF i > Len(coeffs) THEN result
    ELSE horner_forward(p, coeffs, x, i + 1, ((result * x) + coeffs[i]) % p)

evaluate_polynomial_forward(p, coeffs, x) == horner_forward(p, coeffs, x, 1, 0)

evaluate_polynomial(p, coeffs, x) == horner(p, coeffs, x, Len(coeffs), 0)

-----------------------------------------------------------------------------
(* Lagrange reconstruction: shamir.py:82-118, shamir_with_hash.py:103-137 *)

\* the inner loop `for i, (xi, _) in enumerate(byte_shares)` for one j:
\* <<numerator, denominator>>
RECURSIVE basis_products(_, _, _, _, _, _)
basis_products(p, pts, j, i, numerator, denominator) ==
    IF i > Len(pts) THEN <<numerator, denominator>>
    ELSE IF i # j
         THEN basis_products(p, pts, j, i + 1,
                             (numerator * (0 - pts[i][1])) % p,
                             (denominator * (pts[j][1] - pts[i][1])) % p)
         ELSE basis_products(p, pts, j, i + 1, numerator, denominator)

\* the outer loop `for j, (xj, yj) in enumerate(byte_shares)`; [ok |-> FALSE]
\* when _mod_inverse raises
RECURSIVE interpolate(_, _, _, _)
interpolate(p, pts, j, acc) ==
    IF j > Len(pts) THEN [ok |-> TRUE, val |-> acc]
    ELSE LET nd    == basis_products(p, pts, j, 1, 1, 1)
             inv   == mod_inverse(nd[2], p)
             basis == (nd[1] * inv.val) % p
         IN  IF ~inv.ok THEN [ok |-> FALSE, val |-> 0]
             ELSE interpolate(p, pts, j + 1, (acc + (pts[j][2] * basis)) % p)

\* `if secret > 255: secret = secret % 256`
fold_byte(v) == IF v > 255 THEN v % 256 ELSE v

\* the loop `for byte_index in range(num_bytes)`, byte_index 1-based here;
\* `share[byte_index]` raises IndexError on a share with too few points
RECURSIVE reconstruct_loop(_, _, _, _)
reconstruct_loop(p, shs, byte_index, reconstructed_bytes) ==
    IF byte_index > Len(shs[1]) THEN Bytes(reconstructed_bytes)
    ELSE IF \E s \in 1..Len(shs) : Len(shs[s]) < byte_index
         THEN RaisedNoBytes("IndexError: list index out of range")
         ELSE LET pts == [s \in 1..Len(shs) |-> shs[s][byte_index]]
                  r   == interpolate(p, pts, 1, 0)
              IN  IF ~r.ok
                  THEN RaisedNoBytes("ValueError: Modular inverse does not exist")
                  ELSE reconstruct_loop(p, shs, byte_index + 1,
                                        Append(reconstructed_bytes, fold_byte(r.val % p)))

reconstruct_secret(p, shs) ==
    IF shs = <<>> THEN RaisedNoBytes("ValueError: Null shares provided")
    ELSE reconstruct_loop(p, shs, 1, <<>>)

reconstruct_secret_with_hashing(p, shs, hf) ==
    IF shs = <<>> THEN RaisedNoBytes("ValueError: At least one share is required")
    ELSE reconstruct_loop(p, shs, 1, <<>>)

-----------------------------------------------------------------------------
(* HashFunction: hash.py:12-22 *)

NoHash == [k |-> 0, l |-> 0, q |-> 0, matrix |-> <<>>]

\* outcomes of the l x k matrix of random.randint(0, q - 1) entries
Matrices(l, kd, q) ==
    {[i \in 1..l |-> [j \in 1..kd |-> e]] : e \in {1, q - 1}}

HashFunction(kd, l, q, m) == [k |-> kd, l |-> l, q |-> q, matrix |-> m]

Max(a, b) == IF a > b THEN a ELSE b

\* hash.py:30-33: the loop `for j in range(self.k)` of row i, j the next column
RECURSIVE hash_row(_, _, _, _, _)
hash_row(hf, x, i, j, val) ==
    IF j > hf.k THEN val
    ELSE hash_row(hf, x, i, j + 1, (val + (hf.matrix[i][j] * x[j])) % hf.q)

\* HashFunction.hash, hash.py:24-35; [ok |-> FALSE] is the ValueError of a
\* wrong input dimension
hash(hf, x) ==
    IF Len(x) # hf.k THEN [ok |-> FALSE, val |-> <<>>]
    ELSE [ok |-> TRUE, val |-> [i \in 1..hf.l |-> hash_row(hf, x, i, 1, 0)]]

\* LinearSecretSharingWithHashing._sample_preimage, shamir_with_hash.py:35-50,
\* x the vector of its k random draws: h_x and adjustment are computed and
\* the function returns x
sample_preimage(p, sec, hf, x) ==
    LET h_x        == hash(hf, x).val
        adjustment == [i \in 1..Len(sec) |-> (sec[i] - h_x[i]) % p]
    IN  x

-----------------------------------------------------------------------------
(* The state after construction *)

\* shamir.py:14-15 (`prime or 61 * 1000000007`), shamir_with_hash.py:8-11
Init ==
    /\ \/ scheme = "simple" /\ prime \in {DefaultPrime} \cup CustomPrimes
       \/ scheme = "hashed" /\ prime = HashPrime
    /\ pc = "idle"
    /\ secret = <<>>
    /\ n = 0
    /\ k = 0
    /\ random_x = FALSE
    /\ byte_shares = <<>>
    /\ polys = <<>>
    /\ draws = 0
    /\ hash_func = NoHash
    /\ split_out = NoCall
    /\ shares = <<>>
    /\ rec_idx = <<>>
    /\ rec_shares = <<>>
    /\ rec_out = NoRec
    /\ pre = NoPre
    /\ inv_call = NoInv

\* a split call begins: nothing of the previous calls is kept
BeginCall(s, nn, kk, rx) ==
    /\ secret' = s
    /\ n' = nn
    /\ k' = kk
    /\ random_x' = rx
    /\ byte_shares' = <<>>
    /\ polys' = <<>>
    /\ shares' = <<>>
    /\ rec_idx' = <<>>
    /\ rec_shares' = <<>>
    /\ rec_out' = NoRec

\* `raise` inside a split call
Raise(msg) ==
    /\ split_out' = Raised(msg)
    /\ pc' = "idle"

\* shamir.py:73-78, shamir_with_hash.py:94-99: share j holds, in byte order,
\* the j-th point of every byte
organize(bs, nn) ==
    [share_index \in 1..nn |-> [byte_index \in 1..Len(bs) |-> bs[byte_index][share_index]]]

-----------------------------------------------------------------------------
(* ShamirSecretSharing.split_secret: shamir.py:45-80 *)

\* a slip: the check `k < 2` left out
SplitSecret_NoLowerCheck(s, nn, kk) ==
    /\ pc = "idle"
    /\ scheme = "simple"
    /\ BeginCall(s, nn, kk, FALSE)
    /\ draws' = 0
    /\ IF kk > nn
       THEN Raise("Invalid parameters: require 2 <= k <= n")
       ELSE /\ pc' = "split_loop"
            /\ split_out' = NoCall
    /\ UNCHANGED <<pre, inv_call, scheme, prime, hash_func>>

SplitSecret(s, nn, kk) ==
    /\ pc = "idle"
    /\ scheme = "simple"
    /\ BeginCall(s, nn, kk, FALSE)
    /\ draws' = 0
    /\ IF kk > nn \/ kk < 2
       THEN Raise("Invalid parameters: require 2 <= k <= n")
       ELSE /\ pc' = "split_loop"
            /\ split_out' = NoCall
    /\ UNCHANGED <<pre, inv_call, scheme, prime, hash_func>>

\* one iteration of `for byte_value in secret`
SplitSecretByte ==
    /\ pc = "split_loop"
    /\ scheme = "simple"
    /\ Len(byte_shares) < Len(secret)
    /\ LET byte_value == secret[Len(byte_shares) + 1]
       IN  IF byte_value >= prime
           THEN /\ Raise("Byte value too large for field")
                /\ UNCHANGED <<byte_shares, polys, draws>>
           ELSE \E rnd \in [1..(k - 1) -> RandomField(prime)] :
                  LET coeffs == <<byte_value>> \o rnd
                      shares_for_byte ==
                          [x \in 1..n |-> <<x, evaluate_polynomial(prime, coeffs, x)>>]
                  IN  /\ byte_shares' = Append(byte_shares, shares_for_byte)
                      /\ polys' = Append(polys, coeffs)
                      /\ draws' = draws + (k - 1)
                      /\ UNCHANGED <<pc, split_out>>
    /\ UNCHANGED <<pre, inv_call, scheme, prime, secret, n, k, random_x, hash_func, shares,
                   rec_idx, rec_shares, rec_out>>

SplitSecretReturn ==
    /\ pc = "split_loop"
    /\ scheme = "simple"
    /\ Len(byte_shares) = Len(secret)
    /\ shares' = organize(byte_shares, n)
    /\ split_out' = Returned
    /\ pc' = "idle"
    /\ UNCHANGED <<pre, inv_call, scheme, prime, secret, n, k, random_x, byte_shares, polys, draws,
                   hash_func, rec_idx, rec_shares, rec_out>>

-----------------------------------------------------------------------------
(* LinearSecretSharingWithHashing.split_secret_with_hashing:
   shamir_with_hash.py:52-101 *)

SplitSecretWithHashing(s, nn, kk, rx) ==
    /\ pc = "idle"
    /\ scheme = "hashed"
    /\ BeginCall(s, nn, kk, rx)
    /\ IF kk > nn
       THEN /\ Raise("Threshold k cannot be greater than total shares n")
            /\ draws' = 0
            /\ hash_func' = NoHash
       ELSE IF kk < 2
       THEN /\ Raise("Threshold must be at least 2")
            /\ draws' = 0
            /\ hash_func' = NoHash
       ELSE LET k_dim == Max(kk, 8)
                l_dim == Len(s)
            IN  \E m \in Matrices(l_dim, k_dim, prime) :
                  /\ hash_func' = HashFunction(k_dim, l_dim, prime, m)
                  /\ draws' = l_dim * k_dim
                  /\ pc' = "split_loop"
                  /\ split_out' = NoCall
    /\ UNCHANGED <<pre, inv_call, scheme, prime>>

SplitWithHashingByte ==
    /\ pc = "split_loop"
    /\ scheme = "hashed"
    /\ Len(byte_shares) < Len(secret)
    /\ LET byte_value == secret[Len(byte_shares) + 1]
       IN  IF byte_value >= prime
           THEN /\ Raise("Byte value too large for field")
                /\ UNCHANGED <<byte_shares, polys, draws>>
           ELSE \E rnd \in [1..(k - 1) -> RandomField(prime)] :
                \E x_values \in IF random_x THEN [1..n -> RandomX(prime)]
                                ELSE {[x \in 1..n |-> x]} :
                  LET coeffs == <<byte_value>> \o rnd
                      shares_for_byte ==
                          [i \in 1..n |->
                              <<x_values[i], evaluate_polynomial(prime, coeffs, x_values[i])>>]
                  IN  /\ byte_shares' = Append(byte_shares, shares_for_byte)
                      /\ polys' = Append(polys, coeffs)
                      /\ draws' = draws + (k - 1) + (IF random_x THEN n ELSE 0)
                      /\ UNCHANGED <<pc, split_out>>
    /\ UNCHANGED <<pre, inv_call, scheme, prime, secret, n, k, random_x, hash_func, shares,
                   rec_idx, rec_shares, rec_out>>

SplitWithHashingReturn ==
    /\ pc = "split_loop"
    /\ scheme = "hashed"
    /\ Len(byte_shares) = Len(secret)
    /\ shares' = organize(byte_shares, n)
    /\ split_out' = Returned
    /\ pc' = "idle"
    /\ UNCHANGED <<pre, inv_call, scheme, prime, secret, n, k, random_x, byte_shares, polys, draws,
                   hash_func, rec_idx, rec_shares, rec_out>>

-----------------------------------------------------------------------------
(* The reconstruct calls.  The shares passed are shares of the ShareSet held,
   picked by index (a share may be passed twice); `cut`, when not 0, is the
   position of a passed share that has lost its last point. *)

\* the non-decreasing lists of length 0..m of indices in S
PicksOf(S, m) ==
    UNION {{idx \in [1..len -> S] :
              \A a \in 1..len : \A b \in 1..len : a < b => idx[a] <= idx[b]} : len \in 0..m}

Picks(nn, m) == PicksOf(1..nn, m)

\* the positions of a passed share that may have lost its last point (0: none)
Cuts(idx) == {0, 1, Len(idx)}

Front(sq) == IF sq = <<>> THEN sq ELSE SubSeq(sq, 1, Len(sq) - 1)

Passed(idx, cut) ==
    [i \in 1..Len(idx) |-> IF i = cut THEN Front(shares[idx[i]]) ELSE shares[idx[i]]]

ReconstructSecret(idx, cut) ==
    /\ pc = "idle"
    /\ scheme = "simple"
    /\ split_out = Returned
    /\ rec_idx' = idx
    /\ rec_shares' = Passed(idx, cut)
    /\ rec_out' = reconstruct_secret(prime, Passed(idx, cut))
    /\ pc' = "reconstructed"
    /\ UNCHANGED <<pre, inv_call, scheme, prime, secret, n, k, random_x, byte_shares, polys, draws,
                   hash_func, split_out, shares>>

ReconstructSecretWithHashing(idx, cut) ==
    /\ pc = "idle"
    /\ scheme = "hashed"
    /\ split_out = Returned
    /\ rec_idx' = idx
    /\ rec_shares' = Passed(idx, cut)
    /\ rec_out' = reconstruct_secret_with_hashing(prime, Passed(idx, cut), hash_func)
    /\ pc' = "reconstructed"
    /\ UNCHANGED <<pre, inv_call, scheme, prime, secret, n, k, random_x, byte_shares, polys, draws,
                   hash_func, split_out, shares>>

\* benchmarking.py:45-49: the caller drops the result (`_ = ...`) and calls again
DiscardResult ==
    /\ pc = "reconstructed"
    /\ pc' = "idle"
    /\ rec_idx' = <<>>
    /\ rec_shares' = <<>>
    /\ rec_out' = NoRec
    /\ UNCHANGED <<pre, inv_call, scheme, prime, secret, n, k, random_x, byte_shares, polys, draws,
                   hash_func, split_out, shares>>

-----------------------------------------------------------------------------
(* HashFunction(k, l, q) and _sample_preimage(secret, hash_func) on the
   hashing engine *)

\* hash.py:12-22, called as shamir_with_hash.py:67 calls it
NewHashFunction(kd, l) ==
    /\ pc = "idle"
    /\ scheme = "hashed"
    /\ \E m \in Matrices(l, kd, prime) : hash_func' = HashFunction(kd, l, prime, m)
    /\ pre' = NoPre
    /\ UNCHANGED <<inv_call, scheme, prime, pc, secret, n, k, random_x, byte_shares, polys,
                   draws, split_out, shares, rec_idx, rec_shares, rec_out>>

\* shamir_with_hash.py:35-50, target of the dimension l of hash_func
SamplePreimage(target) ==
    /\ pc = "idle"
    /\ scheme = "hashed"
    /\ hash_func # NoHash
    /\ Len(target) = hash_func.l
    /\ \E x \in [1..hash_func.k -> RandomField(prime)] :
          pre' = [status |-> "returned", target |-> target,
                  x |-> sample_preimage(prime, target, hash_func, x)]
    /\ UNCHANGED <<inv_call, scheme, prime, pc, secret, n, k, random_x, byte_shares, polys,
                   draws, hash_func, split_out, shares, rec_idx, rec_shares, rec_out>>

-----------------------------------------------------------------------------
(* _mod_inverse(a, m) called on its own: shamir.py:19-25 *)

ModInverse(a, m) ==
    /\ pc = "idle"
    /\ LET r == mod_inverse(a, m)
       IN  inv_call' = [status |-> IF r.ok THEN "returned" ELSE "raised",
                        a |-> a, m |-> m, x |-> r.val]
    /\ UNCHANGED <<pre, scheme, prime, pc, secret, n, k, random_x, byte_shares, polys,
                   draws, hash_func, split_out, shares, rec_idx, rec_shares, rec_out>>

-----------------------------------------------------------------------------
(* The specifications *)

Next ==
    \/ \E s \in Secrets, nn \in 1..MaxN, kk \in 1..(MaxN + 1) : SplitSecret(s, nn, kk)
    \/ SplitSecretByte
    \/ SplitSecretReturn
    \/ \E s \in HashSecrets, nn \in 1..MaxHashN, kk \in 1..(MaxHashN + 1), rx \in BOOLEAN :
          SplitSecretWithHashing(s, nn, kk, rx)
    \/ SplitWithHashingByte
    \/ SplitWithHashingReturn
    \/ \E idx \in Picks(n, MaxPick) : \E cut \in Cuts(idx) : ReconstructSecret(idx, cut)
    \/ \E idx \in Picks(n, MaxPick) : \E cut \in Cuts(idx) :
          ReconstructSecretWithHashing(idx, cut)
    \/ DiscardResult

Spec == Init /\ [][Next]_vars

\* The default ShamirSecretSharing engine with as many shares as the small
\* factor of its modulus, and one more.
InitWide ==
    /\ Init
    /\ scheme = "simple"
    /\ prime = DefaultPrime

NextWide ==
    \/ \E s \in WideSecrets, nn \in WideN : SplitSecret(s, nn, 2)
    \/ SplitSecretByte
    \/ SplitSecretReturn
    \/ \E idx \in PicksOf(WideIdx \cap (1..n), MaxPick) : \E cut \in Cuts(idx) :
          ReconstructSecret(idx, cut)
    \/ DiscardResult

SpecWide == InitWide /\ [][NextWide]_vars

\* The hashing engine, its hash functions and their pre-images.
InitPreimage ==
    /\ Init
    /\ scheme = "hashed"

NextPreimage ==
    \/ \E kd \in 1..MaxDim, l \in 1..MaxDim : NewHashFunction(kd, l)
    \/ \E l \in 1..MaxDim : \E target \in [1..l -> TargetValues] : SamplePreimage(target)

SpecPreimage == InitPreimage /\ [][NextPreimage]_vars

\* The modular inverse on its own, any modulus above 1 and any integer.
InitInverse ==
    /\ Init
    /\ scheme = "simple"
    /\ prime = DefaultPrime

NextInverse ==
    \E m \in 2..MaxMod : \E a \in (0 - MaxAbs)..MaxAbs : ModInverse(a, m)

SpecInverse == InitInverse /\ [][NextInverse]_vars

-----------------------------------------------------------------------------
(* Vocabulary of the claims *)

\* a reconstruct call has returned or raised
Reconstructed == pc = "reconstructed"

\* the shares passed are shares of the ShareSet held, each as split returned it
Intact == rec_shares = [i \in 1..Len(rec_idx) |-> shares[rec_idx[i]]]

\* no share of the ShareSet is passed twice
DistinctPick == \A a \in 1..Len(rec_idx) : \A b \in 1..Len(rec_idx) :
                    a # b => rec_idx[a] # rec_idx[b]

InverseError == "ValueError: Modular inverse does not exist"

ThresholdErrors == {"Invalid parameters: require 2 <= k <= n",
                    "Threshold k cannot be greater than total shares n",
                    "Threshold must be at least 2"}

\* x^d mod p and the value of the polynomial sum of coeffs[d+1] * x^d at x, mod p
RECURSIVE PowMod(_, _, _)
PowMod(x, d, p) == IF d = 0 THEN 1 % p ELSE (x * PowMod(x, d - 1, p)) % p

RECURSIVE PolySum(_, _, _, _)
PolySum(coeffs, x, p, d) ==
    IF d > Len(coeffs) THEN 0
    ELSE ((coeffs[d] * PowMod(x, d - 1, p)) + PolySum(coeffs, x, p, d + 1)) % p

\* byte values an observer of shares may take the secret byte to be
CandidateBytes == {0, 65, 255}

-----------------------------------------------------------------------------
(* The claims *)

\* C1: round trip. Any k distinct shares of the ShareSet that
\* split_secret(S, n, k) returned, 2 <= k <= n <= 255, reconstruct to exactly S.
C1_RoundTrip ==
    (/\ Reconstructed
     /\ scheme = "simple"
     /\ prime = DefaultPrime
     /\ Intact
     /\ DistinctPick
     /\ Len(rec_idx) = k)
    => rec_out = Bytes(secret)

\* C2: superset stability. Any m distinct shares of the ShareSet, k < m <= n,
\* reconstruct to the same bytes as exactly k of them: S.
C2_SupersetStable ==
    (/\ Reconstructed
     /\ scheme = "simple"
     /\ prime = DefaultPrime
     /\ Intact
     /\ DistinctPick
     /\ Len(rec_idx) > k
     /\ Len(rec_idx) <= n)
    => rec_out = Bytes(secret)

\* C3: secrecy below the threshold. Fewer than k distinct shares of a ShareSet
\* are consistent with every candidate value of each secret byte: some choice
\* of the k-1 random coefficients gives exactly the points held.
C3_Secrecy ==
    (/\ Reconstructed
     /\ scheme = "simple"
     /\ prime = DefaultPrime
     /\ Intact
     /\ DistinctPick
     /\ Len(rec_idx) < k)
    => \A i \in 1..Len(secret) : \A b \in CandidateBytes :
         \E rnd \in [1..(k - 1) -> 0..(prime - 1)] :
           \A a \in 1..Len(rec_idx) :
             evaluate_polynomial(prime, <<b>> \o rnd, rec_shares[a][i][1])
                 = rec_shares[a][i][2]

\* C4: threshold boundary. On either engine a split call with k = 1 or
\* k = n + 1 raises the invalid-threshold error and leaves no shares; with
\* k = 2 or k = n (n >= 2, every byte below the modulus) it does not raise and
\* returns n shares.
C4_ThresholdBoundary ==
    /\ (n >= 1 /\ (k = 1 \/ k = n + 1))
       => /\ pc # "split_loop"
          /\ split_out.status = "raised"
          /\ split_out.error \in ThresholdErrors
          /\ shares = <<>>
    /\ (/\ n >= 2
        /\ (k = 2 \/ k = n)
        /\ \A i \in 1..Len(secret) : secret[i] < prime)
       => /\ split_out.status # "raised"
          /\ pc # "split_loop" => (split_out = Returned /\ Len(shares) = n)

C4_Witness ==
    /\ scheme = "hashed"
    /\ split_out = Returned
    /\ k = n
    /\ Len(shares) = n
    /\ Len(secret) = 2

\* C5: duplicate x rejection. reconstruct_secret given two shares with the same
\* x-coordinate at some byte position raises an error that is not the
\* modular-inverse failure, and returns no bytes.
C5_DuplicateXRejected ==
    (/\ Reconstructed
     /\ scheme = "simple"
     /\ \E a \in 1..Len(rec_shares) : \E b \in 1..Len(rec_shares) :
          /\ a # b
          /\ \E i \in 1..Len(rec_shares[a]) :
               /\ i <= Len(rec_shares[b])
               /\ rec_shares[a][i][1] = rec_shares[b][i][1])
    => /\ rec_out.status = "raised"
       /\ rec_out.error # InverseError
       /\ rec_out.bytes = <<>>

\* C6: mismatched shares are validated. reconstruct_secret given shares that do
\* not all have the same number of points raises; it never returns bytes.
C6_MismatchedRejected ==
    (/\ Reconstructed
     /\ scheme = "simple"
     /\ \E a \in 1..Len(rec_shares) : \E b \in 1..Len(rec_shares) :
          Len(rec_shares[a]) # Len(rec_shares[b]))
    => rec_out.status = "raised"

\* C7: parameter errors precede randomness. A split call that has raised (bad
\* k/n, or a byte not below the modulus) has drawn no random number.
C7_ErrorsBeforeRandomness ==
    split_out.status = "raised" => draws = 0

\* C8: compaction round trip. Any k distinct shares returned by
\* split_secret_with_hashing(S, n, k) with its default arguments, passed with
\* its hash function to reconstruct_secret_with_hashing, give exactly S.
C8_CompactionRoundTrip ==
    (/\ Reconstructed
     /\ scheme = "hashed"
     /\ random_x
     /\ Intact
     /\ DistinctPick
     /\ Len(rec_idx) = k)
    => rec_out = Bytes(secret)

\* C9: the x-coordinates of a ShareSet are distinct. In a ShareSet returned by
\* split_secret, or by split_secret_with_hashing with its default arguments,
\* no two shares have the same x at a byte position and a share has the same
\* x at every byte position.
C9_DistinctX ==
    (/\ split_out = Returned
     /\ (scheme = "simple" \/ random_x))
    => /\ \A i \in 1..Len(secret) : \A a \in 1..n : \A b \in 1..n :
            a # b => shares[a][i][1] # shares[b][i][1]
       /\ \A a \in 1..n : \A i \in 1..Len(secret) : \A j \in 1..Len(secret) :
            shares[a][i][1] = shares[a][j][1]

\* C10: split output structure. split_secret(S, n, k) returns n shares of
\* len(S) points each; share j (1-based here) holds at byte i the point
\* (j, P_i(j) mod p), P_i of degree at most k-1 with constant term S[i], and
\* 0 <= y < p.
C10_SplitStructure ==
    (/\ scheme = "simple"
     /\ split_out = Returned)
    => /\ Len(shares) = n
       /\ Len(polys) = Len(secret)
       /\ \A i \in 1..Len(secret) :
            /\ Len(polys[i]) <= k
            /\ polys[i][1] = secret[i]
       /\ \A j \in 1..n :
            /\ Len(shares[j]) = Len(secret)
            /\ \A i \in 1..Len(secret) :
                 /\ shares[j][i] = <<j, PolySum(polys[i], j, prime, 1)>>
                 /\ shares[j][i][2] >= 0
                 /\ shares[j][i][2] < prime

C10_Witness ==
    /\ scheme = "simple"
    /\ split_out = Returned
    /\ n = 3
    /\ k = 3
    /\ Len(secret) = 2
    /\ Len(shares) = 3
    /\ shares[3][2][2] > 255

\* C11: pre-image correctness. _sample_preimage(target, H), target of H's
\* output dimension, returns a vector x of length H.k with H.hash(x) = target.
C11_PreimageCorrect ==
    pre.status = "returned"
    => /\ Len(pre.x) = hash_func.k
       /\ hash(hash_func, pre.x).ok
       /\ hash(hash_func, pre.x).val = pre.target

\* C12: the inverse fails only on a duplicate x. A reconstruct_secret call on
\* the default engine whose shares have pairwise distinct x-coordinates in
\* 1..n (n <= 255) at every byte position never fails on a modular inverse.
C12_InverseOnlyFailsOnDuplicateX ==
    (/\ Reconstructed
     /\ scheme = "simple"
     /\ prime = DefaultPrime
     /\ n <= 255
     /\ \A a \in 1..Len(rec_shares) : \A i \in 1..Len(rec_shares[a]) :
          /\ rec_shares[a][i][1] \in 1..n
          /\ \A b \in 1..Len(rec_shares) :
               (a # b /\ i <= Len(rec_shares[b]))
                   => rec_shares[a][i][1] # rec_shares[b][i][1])
    => rec_out.error # InverseError

\* the greatest common divisor of a and m, m > 0
Gcd(a, m) ==
    CHOOSE d \in 1..m :
        /\ a % d = 0
        /\ m % d = 0
        /\ \A e \in 1..m : (a % e = 0 /\ m % e = 0) => e <= d

\* C13: the modular inverse contract. For m > 1 and any integer a,
\* _mod_inverse(a, m) returns the only x in [0, m) with a*x mod m = 1 when
\* gcd(a, m) = 1, and raises, returning nothing, when gcd(a, m) # 1 (a
\* congruent to 0 mod m included).
C13_ModInverseContract ==
    inv_call.status # "none"
    => IF Gcd(inv_call.a, inv_call.m) = 1
       THEN /\ inv_call.status = "returned"
            /\ inv_call.x \in 0..(inv_call.m - 1)
            /\ (inv_call.a * inv_call.x) % inv_call.m = 1
            /\ \A y \in 0..(inv_call.m - 1) :
                 (inv_call.a * y) % inv_call.m = 1 => y = inv_call.x
       ELSE inv_call.status = "raised"

C13_Witness ==
    /\ inv_call.status = "returned"
    /\ inv_call.m = 12
    /\ inv_call.a = 0 - 17
    /\ inv_call.x = 7

====
